---------------------------- MODULE Spec2Model ----------------------------
(***************************************************************************)
(* Box matching and answer extraction of the exam grader                   *)
(* (code/fastapi/app/back/inference.py): class Inference, the              *)
(* annotation-guided matcher, and class Inference_v2, the geometry-only    *)
(* matcher.                                                                *)
(*                                                                         *)
(* Numbers.  Coordinates are integers.  A confidence is an integer number  *)
(* of tenths (9 stands for 0.9).  An IoU is the exact fraction n/d with    *)
(* d > 0; the thresholds 0.3, 0.1 and 0 are compared by cross              *)
(* multiplication.  A candidate is the 6-tuple the code builds,            *)
(* <<left, top, right, bottom, confidence, label>>, so p[5] is the code's  *)
(* p[4] and p[6] is the code's p[5] = p[-1].                               *)
(*                                                                         *)
(* Exceptions.  A function that can raise returns a record whose field     *)
(* err is "none" or the name of the Python exception; val is the value     *)
(* returned when err = "none".                                             *)
(***************************************************************************)
EXTENDS Integers, Sequences, FiniteSets, TLC

VARIABLES
    pc,             \* "iou" | "ready" | "loop" | "done" | "raised"
    error,          \* the exception that ended the call ("none" while none did)
    box1, box2,     \* arguments of compute_iou (SpecIoU)
    iou,            \* result of compute_iou (SpecIoU)
    images,         \* self.images: the shape <<height, width>> of each page image
    exam_info,      \* Inference.exam_info: the page records load_exam_info kept
    img_save,       \* argument of make_user_solution
    log_save,       \* argument of make_user_solution
    idx,            \* number of loop passes of make_user_solution that completed
    inference,      \* what the detector returned for the page of the last pass
    anns,           \* Inference: the reference annotations load_anns returned
    q_a_box,        \* Inference: match_qa's pairs after resize_box
    predict,        \* get_predict's list (Inference); match's list (Inference_v2)
    qa_list,        \* Inference_v2: what match returned for the page of the last pass
    qa_info,        \* Inference: make_qa's result for the page of the last pass
    answer_bbox,    \* Inference: question number -> candidate
    a_label,        \* recorded answers (both classes)
    q_label,        \* Inference_v2: recorded question markers
    q_bbox,         \* Inference_v2: per page, the boxes of its question markers
    num,            \* Inference_v2: running question counter
    user_solution   \* the returned Solution

vars == <<pc, error, box1, box2, iou, images, exam_info, img_save, log_save,
          idx, inference, anns, q_a_box, predict, qa_list, qa_info,
          answer_bbox, a_label, q_label, q_bbox, num, user_solution>>

(***************************************************************************)
(* Bounds of the model.                                                    *)
(***************************************************************************)
MaxCoord == 2      \* boxes of SpecIoU have corners in 0..MaxCoord
MaxPages == 2      \* at most MaxPages page images in one run

(***************************************************************************)
(* Generic helpers.                                                        *)
(***************************************************************************)
Max(a, b) == IF a >= b THEN a ELSE b
Min(a, b) == IF a <= b THEN a ELSE b

Ok(v)     == [err |-> "none", val |-> v]
Raise(e)  == [err |-> e, val |-> <<>>]

\* The sequences over S of length at most n.
SeqUpTo(S, n) == UNION {[1..k -> S] : k \in 0..n}

\* Python's sorted(s, key=..., reverse=...): a stable sort.  Before(a, b) is
\* "a sorts strictly before b".  s[i] comes after the elements that sort
\* strictly before it and after the earlier elements it does not sort
\* strictly before.
Sorted(s, Before(_, _)) ==
    LET rank(i) == Cardinality({j \in 1..Len(s) :
                        \/ Before(s[j], s[i])
                        \/ (j < i /\ ~Before(s[i], s[j]))})
    IN  [k \in 1..Len(s) |-> s[CHOOSE i \in 1..Len(s) : rank(i) = k - 1]]

(***************************************************************************)
(* Geometry: Inference.xywh2ltrb, Inference.compute_iou and                *)
(* Inference_v2.compute_iou (the two compute_iou are the same text).       *)
(***************************************************************************)
xywh2ltrb(bbox) == <<bbox[1], bbox[2], bbox[1] + bbox[3], bbox[2] + bbox[4]>>

Area(b) == (b[3] - b[1]) * (b[4] - b[2])

\* intersection / union in numpy arithmetic, then `assert iou <= 1`.
\* union = 0 gives nan (0/0) or inf (x/0) with a warning, not an exception;
\* nan <= 1 and inf <= 1 are False, so the assert raises AssertionError.
compute_iou(b1, b2) ==
    LET x1 == Max(b1[1], b2[1])
        y1 == Max(b1[2], b2[2])
        x2 == Min(b1[3], b2[3])
        y2 == Min(b1[4], b2[4])
        box1_area == (b1[3] - b1[1]) * (b1[4] - b1[2])
        box2_area == (b2[3] - b2[1]) * (b2[4] - b2[2])
        intersection == Max(x2 - x1, 0) * Max(y2 - y1, 0)
        union == box1_area + box2_area - intersection
    IN  IF union = 0 THEN Raise("AssertionError")
        ELSE IF union > 0 /\ intersection > union THEN Raise("AssertionError")
        ELSE IF union > 0 THEN Ok([n |-> intersection, d |-> union])
        ELSE Ok([n |-> 0 - intersection, d |-> 0 - union])

\* Comparisons of an IoU n/d (d > 0) with the fraction a/b (b > 0), and of
\* two IoUs.
IouLt(i, a, b) == i.n * b < a * i.d
IouGt(i, a, b) == i.n * b > a * i.d
IouGe(i, a, b) == i.n * b >= a * i.d
IouEq(i, j)    == i.n * j.d = j.n * i.d
IouLess(i, j)  == i.n * j.d < j.n * i.d

(***************************************************************************)
(* compute_iou on its own: one call on two boxes <<left, top, right,       *)
(* bottom>> with left <= right and top <= bottom, as the detector and      *)
(* resize_box give them.                                                   *)
(***************************************************************************)
Boxes == {b \in (0..MaxCoord) \X (0..MaxCoord) \X (0..MaxCoord) \X (0..MaxCoord) :
            b[1] <= b[3] /\ b[2] <= b[4]}

IoUInit ==
    /\ pc = "iou"
    /\ error = "none"
    /\ box1 \in Boxes /\ box2 \in Boxes
    /\ iou = <<>>
    /\ images = <<>> /\ exam_info = <<>> /\ anns = <<>> /\ q_a_box = <<>>
    /\ qa_info = <<>> /\ answer_bbox = <<>>
    /\ img_save = FALSE /\ log_save = FALSE
    /\ idx = 0 /\ num = 0
    /\ inference = <<>> /\ predict = <<>> /\ qa_list = <<>>
    /\ a_label = <<>> /\ q_label = <<>> /\ q_bbox = <<>>
    /\ user_solution = <<>>

IoUReturn(r) ==
    /\ pc' = IF r.err = "none" THEN "done" ELSE "raised"
    /\ error' = r.err
    /\ iou' = r.val

\* The call compute_iou(box1, box2).
IoUCall ==
    /\ pc = "iou"
    /\ \E r \in {compute_iou(box1, box2)} : IoUReturn(r)
    /\ UNCHANGED <<box1, box2, images, exam_info, img_save, log_save, idx,
                   inference, anns, q_a_box, predict, qa_list, qa_info,
                   answer_bbox, a_label, q_label, q_bbox, num, user_solution>>

IoUNext == IoUCall

SpecIoU == IoUInit /\ [][IoUNext]_vars

\* compute_iou(box1, box2) was called and returned or raised.
IoUCalled == box1 # <<>> /\ pc \in {"done", "raised"}

\* C7: compute_iou(a, a) returns 1 for a box a of positive area and 0 for a
\* box of zero area; whenever the union of the two boxes is 0 (both of zero
\* area) the result is 0 and nothing is raised.
C7_SelfIoU ==
    /\ (IoUCalled /\ box1 = box2) =>
            /\ pc = "done"
            /\ IF Area(box1) > 0 THEN iou.n = iou.d ELSE iou.n = 0
    /\ (IoUCalled /\ Area(box1) = 0 /\ Area(box2) = 0) =>
            /\ pc = "done"
            /\ iou.n = 0

\* C8: on boxes with left <= right and top <= bottom the assertion
\* iou <= 1 never fails, the result is between 0 and 1 and is the result of
\* compute_iou(box2, box1).
C8_SymmetricBounded ==
    IoUCalled =>
        /\ pc = "done"
        /\ 0 <= iou.n /\ iou.n <= iou.d
        /\ compute_iou(box2, box1).err = "none"
        /\ IouEq(iou, compute_iou(box2, box1).val)

(***************************************************************************)
(* Inference_v2, the geometry-only matcher.                                *)
(*                                                                         *)
(* The detector returns floats; the coordinates of its candidates are in   *)
(* half pixels here (3 stands for 1.5 px), the image width is in pixels.   *)
(* int(b[i]) is then b[i] \div 2, in pixels, and the code's                *)
(* p[0] < width / 2 is p[1] < width.                                       *)
(***************************************************************************)
QuestionLabel == 6

\* Descending confidence: sorted(..., key=lambda x: x[4], reverse=True) and
\* sorted(..., key=lambda x: -x[4]).
ByConfidence(a, b) == a[5] > b[5]

\* Ascending top of the cluster's question marker: key=lambda x: x[0][1].
ByTop(c1, c2) == c1[1][2] < c2[1][2]

\* The detector's result is one array of <<left, top, right, bottom,
\* confidence>> rows per label, labels from 0.  get_predict lists the rows
\* label by label, the label appended, and sorts by confidence.
RECURSIVE FlattenLabels(_, _)
FlattenLabels(inf, k) ==
    IF k > Len(inf) THEN <<>>
    ELSE [j \in 1..Len(inf[k]) |->
            <<inf[k][j][1], inf[k][j][2], inf[k][j][3], inf[k][j][4], inf[k][j][5], k - 1>>]
         \o FlattenLabels(inf, k + 1)

v2_get_predict(inf) == Sorted(FlattenLabels(inf, 1), ByConfidence)

\* The least element of a non-empty set of integers: where a loop first
\* stops.
First(S) == CHOOSE i \in S : \A j \in S : i <= j

\* What a loop leaves whose passes gave the results rs: the exception of the
\* first pass that raised, or the list of the values.
Collect(rs) ==
    IF \E i \in DOMAIN rs : rs[i].err # "none"
    THEN Raise(rs[First({i \in DOMAIN rs : rs[i].err # "none"})].err)
    ELSE Ok([i \in DOMAIN rs |-> rs[i].val])

\* Line 411 (426) at index i: compute_iou raises, or the IoU of the i-th
\* question marker with the first is below 0.1 and the loop breaks.
v2_stops(r) == r.err # "none" \/ IouLt(r.val, 1, 10)

v2_second(side_q, r, i) ==
    IF r.err # "none" THEN Raise(r.err) ELSE Ok(<<<<side_q[1]>>, <<side_q[i]>>>>)

v2_scan(side_q, stop) ==
    IF stop = {} THEN Ok(<<<<side_q[1]>>>>)
    ELSE v2_second(side_q, compute_iou(side_q[1], side_q[First(stop)]), First(stop))

\* The clusters of one column (lines 409-413 and 424-428): the most confident
\* question marker, and the first of the others whose IoU with it is below
\* 0.1.  side_q[0] of an empty list raises IndexError.
v2_clusters(side_q) ==
    IF side_q = <<>> THEN Raise("IndexError")
    ELSE v2_scan(side_q, {i \in 2..Len(side_q) :
                            v2_stops(compute_iou(side_q[1], side_q[i]))})

\* Line 418 (433): compute_iou(...) > 0, once no pass raised.
v2_overlaps(r) == r.err = "none" /\ IouGt(r.val, 0, 1)

\* A pairing that takes the last of the sorted tmp, tmp[-1].
v2_append_last(cluster, tmp) ==
    IF tmp = <<>> THEN Raise("IndexError") ELSE Ok(Append(cluster, tmp[Len(tmp)]))

\* Lines 420-421 (435-436): tmp[0] of the sorted tmp; an empty tmp raises
\* IndexError.
v2_append(cluster, tmp) ==
    IF tmp = <<>> THEN Raise("IndexError") ELSE Ok(Append(cluster, tmp[1]))

\* The answer of one cluster (lines 416-421 and 431-436): the most confident
\* of the column's answer markers with IoU > 0.
v2_pair(cluster, side_a) ==
    IF \E j \in 1..Len(side_a) : compute_iou(cluster[1], side_a[j]).err # "none"
    THEN Raise("AssertionError")
    ELSE v2_append(cluster,
            Sorted(SelectSeq(side_a, LAMBDA a : v2_overlaps(compute_iou(cluster[1], a))),
                   ByConfidence))

\* Line 422 (437): sorted(side, key=lambda x: x[0][1]).
v2_sorted(side) == IF side.err # "none" THEN side ELSE Ok(Sorted(side.val, ByTop))

\* Lines 414-421 (429-436): with no answer marker in the column the
\* clusters stay alone.
v2_paired(cl, side_a) ==
    IF cl.err # "none" THEN cl
    ELSE IF side_a = <<>> THEN cl
    ELSE Collect([i \in 1..Len(cl.val) |-> v2_pair(cl.val[i], side_a)])

\* One column (lines 409-422 and 424-437).
v2_side(side_q, side_a) == v2_sorted(v2_paired(v2_clusters(side_q), side_a))

\* qa_list += left, then qa_list += right: the left column's exception comes
\* first.
v2_qa_list(left_side, right_side) ==
    IF left_side.err # "none" THEN left_side
    ELSE IF right_side.err # "none" THEN right_side
    ELSE Ok(left_side.val \o right_side.val)

\* Lines 395-407: the candidates of one column and kind, most confident first.
v2_part(pred, width, left, question) ==
    Sorted(SelectSeq(pred, LAMBDA p : ((p[1] < width) = left) /\ ((p[6] = QuestionLabel) = question)),
           ByConfidence)

\* Inference_v2.match.  The column of every page is decided with the width
\* of the first image, self.images[0].shape[1].
v2_match(pred, imgs) ==
    v2_qa_list(v2_side(v2_part(pred, imgs[1][2], TRUE, TRUE),
                       v2_part(pred, imgs[1][2], TRUE, FALSE)),
               v2_side(v2_part(pred, imgs[1][2], FALSE, TRUE),
                       v2_part(pred, imgs[1][2], FALSE, FALSE)))

\* The unanswered sentinel, [0,0,0,0,0,-1] (lines 153 and 467).
Unanswered == <<0, 0, 0, 0, 0, -1>>

\* for b in bbox: for i in range(4): b[i] = int(b[i])   (lines 457-460)
v2_int(b) == <<b[1] \div 2, b[2] \div 2, b[3] \div 2, b[4] \div 2, b[5], b[6]>>
v2_int_all(pred) == [c \in 1..Len(pred) |-> [k \in 1..Len(pred[c]) |-> v2_int(pred[c][k])]]

RECURSIVE Concat(_)
Concat(ss) == IF ss = <<>> THEN <<>> ELSE Head(ss) \o Concat(Tail(ss))

\* What the loop of lines 464-475 appends for one cluster ps to q_label, to
\* a_label and to q_bbox[idx].
v2_questions(ps) ==
    IF Len(ps) = 1 THEN <<ps[1]>> ELSE SelectSeq(ps, LAMBDA p : p[6] = QuestionLabel)
\* A loop that appends no sentinel for a cluster without an answer.
v2_answers_no_sentinel(ps) ==
    IF Len(ps) = 1 THEN <<>> ELSE SelectSeq(ps, LAMBDA p : p[6] # QuestionLabel)
v2_answers(ps) ==
    IF Len(ps) = 1 THEN <<Unanswered>> ELSE SelectSeq(ps, LAMBDA p : p[6] # QuestionLabel)
Box4(p)          == <<p[1], p[2], p[3], p[4]>>

\* user_solution = {i+1: a[-1] for i, a in enumerate(a_label)}   (line 483)
v2_solution(al) == [i \in 1..Len(al) |-> al[i][6]]

(***************************************************************************)
(* The pages Inference_v2 is run on.  A sheet carries the marks of Sheet2  *)
(* (half pixels): on a page the detector finds any of them, each with its  *)
(* confidence and label, and returns them label by label in this order;    *)
(* the two answer marks of the left column come with either order of       *)
(* confidence.                                                             *)
(* The images are 4 or 8 pixels wide.                                      *)
(***************************************************************************)
Sheet2 == <<
    <<1, 1, 3, 3, 4, 1>>,    \* answer mark on the upper left question
    <<0, 4, 3, 7, 9, 6>>,    \* left question marker, lower
    <<2, 2, 3, 5, 8, 2>>,    \* answer mark across both left questions
    <<0, 0, 3, 3, 8, 6>>,    \* left question marker, upper
    <<5, 0, 7, 3, 9, 6>>,    \* right question marker (left on a wide image)
    <<5, 1, 7, 2, 7, 3>> >>  \* answer mark on the right question

\* The same marks with the confidences of the two answer marks of the left
\* column exchanged: the more confident one is then listed first.
Sheet2Swapped == [i \in 1..Len(Sheet2) |->
    IF i = 1 THEN <<1, 1, 3, 3, 8, 1>>
    ELSE IF i = 3 THEN <<2, 2, 3, 5, 4, 2>>
    ELSE Sheet2[i]]

Shapes2 == {<<6, 4>>, <<6, 8>>}

Row(p) == <<p[1], p[2], p[3], p[4], p[5]>>

Detected(sheet, S) ==
    [k \in 1..(QuestionLabel + 1) |->
        LET found == SelectSeq([i \in 1..Len(sheet) |-> i],
                               LAMBDA i : i \in S /\ sheet[i][6] = k - 1)
        IN  [j \in 1..Len(found) |-> Row(sheet[found[j]])]]

DetectorOutputs2 ==
    {Detected(Sheet2, S) : S \in SUBSET (1..Len(Sheet2))}
    \cup {Detected(Sheet2Swapped, S) : S \in {T \in SUBSET (1..Len(Sheet2)) : {1, 3} \subseteq T}}

(***************************************************************************)
(* Inference_v2(images, detector).make_user_solution(img_save, log_save).  *)
(***************************************************************************)
\* What writing predict_log.csv meets: the log directory is there and
\* writable, is missing and can be made (os.mkdir), or cannot be written or
\* made (os.mkdir or to_csv raises OSError).
LogDirs == {"writable", "missing", "unwritable"}

V2Init ==
    /\ pc = "ready"
    /\ error = "none"
    /\ images \in SeqUpTo(Shapes2, MaxPages)
    /\ box1 = <<>> /\ box2 = <<>> /\ iou = <<>>
    /\ exam_info = <<>> /\ anns = <<>> /\ q_a_box = <<>> /\ qa_info = <<>>
    /\ answer_bbox = <<>>
    /\ img_save = FALSE /\ log_save = FALSE
    /\ idx = 0 /\ num = 0
    /\ inference = <<>> /\ predict = <<>> /\ qa_list = <<>>
    /\ a_label = <<>> /\ q_label = <<>> /\ q_bbox = <<>>
    /\ user_solution = <<>>

\* get_predict and match on every detector result, for each width of the
\* first image (match reads no other image): lines 455-456.
V2Matched ==
    [shape \in Shapes2 |->
        [inf \in DetectorOutputs2 |->
            [predict |-> v2_get_predict(inf),
             match   |-> v2_match(v2_get_predict(inf), <<shape>>)]]]

\* Lines 450-453: the call and the initial assignments.
V2Begin ==
    /\ pc = "ready"
    /\ \E is \in BOOLEAN, ls \in BOOLEAN : img_save' = is /\ log_save' = ls
    /\ pc' = "loop"
    /\ idx' = 0 /\ num' = 1
    /\ a_label' = <<>> /\ q_label' = <<>> /\ q_bbox' = <<>>
    /\ UNCHANGED <<error, box1, box2, iou, images, exam_info, inference, anns,
                   q_a_box, predict, qa_list, qa_info, answer_bbox, user_solution>>

\* match raised: the exception leaves make_user_solution.
V2Raised(inf, pred, e) ==
    /\ pc' = "raised"
    /\ error' = e
    /\ inference' = inf
    /\ predict' = pred
    /\ UNCHANGED <<idx, num, qa_list, a_label, q_label, q_bbox>>

\* Lines 457-476, pred being match's list after the int conversion.
V2Recorded(inf, matched, pred, qs) ==
    /\ pc' = "loop"
    /\ error' = error
    /\ inference' = inf
    /\ qa_list' = matched
    /\ predict' = pred
    /\ q_label' = q_label \o qs
    /\ a_label' = a_label \o Concat([c \in 1..Len(pred) |-> v2_answers(pred[c])])
    /\ q_bbox' = Append(q_bbox, [i \in 1..Len(qs) |-> Box4(qs[i])])
    /\ num' = num + Len(pred)
    /\ idx' = idx + 1

V2Pass(inf, r, pred) ==
    IF r.match.err # "none"
    THEN V2Raised(inf, r.predict, r.match.err)
    ELSE V2Recorded(inf, r.match.val, pred, Concat([c \in 1..Len(pred) |-> v2_questions(pred[c])]))

\* Lines 454-476: one pass of the loop over the images.  With img_save the
\* pass also draws and writes the overlay (save_predict); cv2.imwrite
\* reports a failed write by its return value, which is not read.
V2Page ==
    /\ pc = "loop"
    /\ idx < Len(images)
    /\ \E inf \in DetectorOutputs2 :
          \E r \in {V2Matched[images[1]][inf]} :
              V2Pass(inf, r, IF r.match.err = "none" THEN v2_int_all(r.match.val) ELSE <<>>)
    /\ UNCHANGED <<box1, box2, iou, images, exam_info, img_save, log_save, anns,
                   q_a_box, qa_info, answer_bbox, user_solution>>

\* Lines 477-484: the prediction log, then the Solution.
V2Finish ==
    /\ pc = "loop"
    /\ idx = Len(images)
    /\ \E dir \in LogDirs :
        IF log_save /\ dir = "unwritable"
        THEN pc' = "raised" /\ error' = "OSError" /\ user_solution' = user_solution
        ELSE pc' = "done" /\ error' = error /\ user_solution' = v2_solution(a_label)
    /\ UNCHANGED <<box1, box2, iou, images, exam_info, img_save, log_save, idx,
                   inference, anns, q_a_box, predict, qa_list, qa_info,
                   answer_bbox, a_label, q_label, q_bbox, num>>

V2Next == V2Begin \/ V2Page \/ V2Finish

SpecV2 == V2Init /\ [][V2Next]_vars

(***************************************************************************)
(* Properties of Inference_v2.                                             *)
(***************************************************************************)
Range(s) == {s[i] : i \in DOMAIN s}

\* The page of the last pass went through match: qa_list is what match
\* returned for the detector result in inference.
V2Matching == idx > 0 /\ (pc \in {"loop", "done"} \/ (pc = "raised" /\ error = "OSError"))

\* The answer markers of the column of the question marker q that have
\* IoU > 0 with q, among the candidates of the last pass.
V2Overlapping(q) ==
    {a \in Range(FlattenLabels(inference, 1)) :
        /\ a[6] # QuestionLabel
        /\ (a[1] < images[1][2]) = (q[1] < images[1][2])
        /\ v2_overlaps(compute_iou(q, a))}

\* The number of question boxes returned for all the pages so far.
RECURSIVE TotalLen(_)
TotalLen(ss) == IF ss = <<>> THEN 0 ELSE Len(Head(ss)) + TotalLen(Tail(ss))

\* C3: in a run of Inference_v2 that raises nothing, after every page the
\* accumulated question markers and answers are equally many, as many as
\* the clusters match returned so far (num - 1); the Solution's keys are
\* then exactly 1..N, N the number of clusters of all pages.
C3_ContiguousNumbering ==
    /\ pc \in {"loop", "done"} =>
            /\ Len(q_label) = Len(a_label)
            /\ Len(a_label) = num - 1
            /\ Len(q_bbox) = idx
            /\ TotalLen(q_bbox) = num - 1
    /\ pc = "done" => DOMAIN user_solution = 1..(num - 1)

\* Two pages went through, with an answered and an unanswered cluster, and
\* the Solution is returned.
C3_Witness ==
    /\ pc = "done"
    /\ idx = 2
    /\ Len(user_solution) >= 4
    /\ \E i, j \in DOMAIN user_solution : user_solution[i] = -1 /\ user_solution[j] # -1

\* C10: when match returns, every cluster whose question marker has IoU > 0
\* with some answer marker of its column is paired, and with one of those
\* answer markers whose confidence none of them exceeds.
C10_PairedAnswerIsMostConfident ==
    V2Matching =>
        \A c \in 1..Len(qa_list) :
            V2Overlapping(qa_list[c][1]) # {} =>
                /\ Len(qa_list[c]) = 2
                /\ qa_list[c][2] \in V2Overlapping(qa_list[c][1])
                /\ \A a \in V2Overlapping(qa_list[c][1]) : a[5] <= qa_list[c][2][5]

\* match returned a cluster whose question marker overlaps two answer
\* markers of different confidence.
C10_Witness ==
    /\ V2Matching
    /\ \E c \in 1..Len(qa_list) :
          /\ Len(qa_list[c]) = 2
          /\ \E a \in V2Overlapping(qa_list[c][1]) : a[5] < qa_list[c][2][5]

\* C4: a cluster whose question marker has IoU > 0 with no answer marker of
\* its column never makes the pass raise, also when the column holds other
\* answer markers, and comes out of match alone (so that its Solution entry
\* is -1).  Only pages with a question marker in both columns are looked at.
C4_UnansweredClusterNeverRaises ==
    (pc # "ready" /\ inference # <<>>) =>
        \A left \in BOOLEAN :
            \E cl \in {v2_clusters(v2_part(v2_get_predict(inference), images[1][2], left, TRUE))} :
                ( /\ cl.err = "none"
                  /\ v2_part(v2_get_predict(inference), images[1][2], ~left, TRUE) # <<>> ) =>
                    \A i \in 1..Len(cl.val) :
                        V2Overlapping(cl.val[i][1]) = {} =>
                            /\ pc = "raised" => error = "OSError"
                            /\ cl.val[i] \in Range(qa_list)

(***************************************************************************)
(* Inference, the annotation-guided matcher.                               *)
(*                                                                         *)
(* The reference store (self.coco) is Coco: page records <<id, file_name,  *)
(* width, height>> and annotations <<image_id, category_id, bbox>> with    *)
(* bbox = <<x, y, w, h>>.  A file name is a sequence of digits, so that    *)
(* `exam_info in file_name` and the sort by file name are computed.        *)
(* Candidates and image shapes are in pixels; the image-to-annotation      *)
(* ratios are 1 and 1/2, for which the float product of resize_box is      *)
(* exact.                                                                  *)
(***************************************************************************)
box_threshold == 3        \* 0.3, in tenths
AnswerCategories == 6     \* category_id <= 6 is an answer region, > 6 a question

\* `e in name` for strings: e is a contiguous part of name.
Contains(name, e) ==
    \E i \in 0..(Len(name) - Len(e)) : SubSeq(name, i + 1, i + Len(e)) = e

\* name1 < name2 for strings.
StrLess(a, b) ==
    \E k \in 1..(Min(Len(a), Len(b)) + 1) :
        /\ \A j \in 1..(k - 1) : a[j] = b[j]
        /\ IF k > Len(a) THEN k <= Len(b) ELSE k <= Len(b) /\ a[k] < b[k]

ByFileName(i1, i2) == StrLess(i1.file_name, i2.file_name)

\* Lines 33-36.
load_exam_info(coco, exam) ==
    Sorted(SelectSeq(coco.images, LAMBDA info : Contains(info.file_name, exam)),
           ByFileName)

\* Lines 39-42, for the page record img_info = self.exam_info[idx].
load_anns(coco, img_info) ==
    SelectSeq(coco.annotations, LAMBDA ann : ann.image_id = img_info.id)

\* Lines 65-74: the rows above the threshold, the label appended, most
\* confident first.
get_predict(inf) ==
    Sorted(SelectSeq(FlattenLabels(inf, 1), LAMBDA p : p[5] > box_threshold),
           ByConfidence)

\* dict.update and dict[k] = v.
Update(d, e) ==
    [k \in (DOMAIN d) \cup (DOMAIN e) |-> IF k \in DOMAIN e THEN e[k] ELSE d[k]]
Put(d, k, v) == [j \in (DOMAIN d) \cup {k} |-> IF j = k THEN v ELSE d[j]]

\* Line 129 for the answer a: compute_iou raises, or the IoU is above 0 and
\* the loop over the answers breaks.
match_stops(r) == r.err # "none" \/ IouGt(r.val, 0, 1)

\* Lines 126-131 for one question q once the inner loop stopped at answer a
\* with compute_iou's result r.
match_found(dict, q, a, r) ==
    IF r.err # "none" THEN Raise(r.err)
    ELSE Ok(Put(dict, q.category_id, xywh2ltrb(a.bbox)))

match_question(dict, q, answers, stop) ==
    IF stop = {} THEN Ok(dict)
    ELSE match_found(dict, q, answers[First(stop)],
                     compute_iou(xywh2ltrb(q.bbox), xywh2ltrb(answers[First(stop)].bbox)))

\* Lines 125-131 from the i-th question on, anns_dict being dict.
RECURSIVE match_loop(_, _, _, _)
match_loop(dict, questions, answers, i) ==
    IF dict.err # "none" \/ i > Len(questions) THEN dict
    ELSE match_loop(
            match_question(dict.val, questions[i], answers,
                {j \in 1..Len(answers) :
                    match_stops(compute_iou(xywh2ltrb(questions[i].bbox),
                                            xywh2ltrb(answers[j].bbox)))}),
            questions, answers, i + 1)

\* Inference.match_qa (lines 109-134).
match_qa(a) ==
    match_loop(Ok(<<>>),
               SelectSeq(a, LAMBDA ann : ann.category_id > AnswerCategories),
               SelectSeq(a, LAMBDA ann : ann.category_id <= AnswerCategories),
               1)

\* int(a * ratio) with ratio = size / ref, for a >= 0.
Scaled(a, size, ref) == (a * size) \div ref

\* Inference.resize_box (lines 158-177); img_shape = <<height, width>>.
resize_box(boxes, img_info, img_shape) ==
    [q \in DOMAIN boxes |->
        <<Scaled(boxes[q][1], img_shape[2], img_info.width),
          Scaled(boxes[q][2], img_shape[1], img_info.height),
          Scaled(boxes[q][3], img_shape[2], img_info.width),
          Scaled(boxes[q][4], img_shape[1], img_info.height)>>]

\* iou_list.index(max(iou_list)): the first index of a greatest IoU.
ArgMax(ious) ==
    First({i \in DOMAIN ious : \A j \in DOMAIN ious : ~IouLess(ious[i].val, ious[j].val)})

\* A selection by confidence: the first of predict, the most confident.
make_qa_most_confident(pred, ious, m) ==
    IF IouLt(ious[m].val, 3, 10) THEN Unanswered ELSE pred[1]

\* Lines 152-155: the sentinel when max_iou < 0.3, else the candidate at
\* the index m of max_iou.
make_qa_select(pred, ious, m) ==
    IF IouLt(ious[m].val, 3, 10) THEN Unanswered ELSE pred[m]

\* Lines 150-155 for one region, ious being iou_list.
make_qa_entry(pred, ious) ==
    IF \E i \in DOMAIN ious : ious[i].err # "none" THEN Raise("AssertionError")
    ELSE IF pred = <<>> THEN Ok(Unanswered)
    ELSE Ok(make_qa_select(pred, ious, ArgMax(ious)))

make_qa_dict(entries) ==
    IF \E q \in DOMAIN entries : entries[q].err # "none" THEN Raise("AssertionError")
    ELSE Ok([k \in {q - AnswerCategories : q \in DOMAIN entries} |->
                entries[k + AnswerCategories].val])

\* Inference.make_qa (lines 136-156): boxes is the dict of match_qa after
\* resize_box.
make_qa(pred, boxes) ==
    make_qa_dict([q \in DOMAIN boxes |->
        make_qa_entry(pred, [i \in 1..Len(pred) |-> compute_iou(pred[i], boxes[q])])])

\* Lines 211-216 of one pass, for the page record img_info, the image shape
\* and the detector's result inf.
v1_made(a, pred, boxes, made) ==
    [err |-> made.err, anns |-> a, predict |-> pred, q_a_box |-> boxes,
     qa_info |-> made.val]

v1_matched(a, pred, img_info, img_shape, m) ==
    IF m.err # "none"
    THEN [err |-> m.err, anns |-> a, predict |-> pred, q_a_box |-> <<>>, qa_info |-> <<>>]
    ELSE v1_made(a, pred, resize_box(m.val, img_info, img_shape),
                 make_qa(pred, resize_box(m.val, img_info, img_shape)))

v1_pass(coco, img_info, img_shape, inf) ==
    v1_matched(load_anns(coco, img_info), get_predict(inf), img_info, img_shape,
               match_qa(load_anns(coco, img_info)))

\* Line 238: {q: int(bbox[-1]) for q, bbox in sorted(answer_bbox.items())}.
v1_solution(ab) == [q \in DOMAIN ab |-> ab[q][6]]

(***************************************************************************)
(* The runs of Inference.  The store holds the two pages of exam 7 (page 2 *)
(* stored first) and the page of exam 8; no page of exam 9.  The reference *)
(* images are 8 by 8.  Page 1 of exam 7 has question 1 (category 7) with   *)
(* its answer region and question 2 (category 8) with none; page 2 has     *)
(* question 3 with a small answer region; the page of exam 8 has           *)
(* question 1 with its answer region and an answer region off every        *)
(* question.                                                               *)
(***************************************************************************)
Coco ==
    [images |-> <<
        [id |-> 1, file_name |-> <<7, 0, 2>>, width |-> 8, height |-> 8],
        [id |-> 2, file_name |-> <<7, 0, 1>>, width |-> 8, height |-> 8],
        [id |-> 3, file_name |-> <<8, 0, 1>>, width |-> 8, height |-> 8] >>,
     annotations |-> <<
        [image_id |-> 2, category_id |-> 7, bbox |-> <<0, 0, 8, 3>>],
        [image_id |-> 2, category_id |-> 2, bbox |-> <<2, 1, 4, 2>>],
        [image_id |-> 2, category_id |-> 8, bbox |-> <<0, 4, 8, 3>>],
        [image_id |-> 1, category_id |-> 9, bbox |-> <<0, 0, 8, 4>>],
        [image_id |-> 1, category_id |-> 4, bbox |-> <<5, 2, 1, 1>>],
        [image_id |-> 3, category_id |-> 7, bbox |-> <<0, 0, 8, 3>>],
        [image_id |-> 3, category_id |-> 1, bbox |-> <<2, 1, 4, 2>>],
        [image_id |-> 3, category_id |-> 3, bbox |-> <<1, 6, 2, 1>>] >>]

\* An identifier may be part of the file names of several exams: <<0, 1>>
\* is in the names of page 1 of exam 7 and of exam 8, which both annotate
\* question 1 (category 7).
ExamIds == {<<7>>, <<8>>, <<9>>, <<0, 1>>}

\* The candidates the detector finds on a page, any of them.
Sheet1 == <<
    <<1, 1, 1, 1, 5, 0>>,    \* a degenerate box
    <<3, 1, 6, 3, 2, 1>>,    \* on the answer region of question 1, confidence 0.2
    <<2, 1, 6, 3, 5, 2>>,    \* the answer region of question 1
    <<2, 1, 3, 3, 9, 3>>,    \* a corner of it, confidence 0.9
    <<1, 0, 3, 1, 8, 5>> >>  \* the answer region of question 1 on a half-size image

Shapes1 == {<<8, 8>>, <<4, 4>>}

DetectorOutputs1 == {Detected(Sheet1, S) : S \in SUBSET (1..Len(Sheet1))}

\* After Inference(images, exam_info, coco, detector): lines 11-16.
V1Init ==
    /\ pc = "ready"
    /\ error = "none"
    /\ images \in SeqUpTo(Shapes1, MaxPages)
    /\ \E exam \in ExamIds : exam_info = load_exam_info(Coco, exam)
    /\ box1 = <<>> /\ box2 = <<>> /\ iou = <<>>
    /\ anns = <<>> /\ q_a_box = <<>> /\ qa_info = <<>>
    /\ answer_bbox = <<>>
    /\ img_save = FALSE /\ log_save = FALSE
    /\ idx = 0 /\ num = 0
    /\ inference = <<>> /\ predict = <<>> /\ qa_list = <<>>
    /\ a_label = <<>> /\ q_label = <<>> /\ q_bbox = <<>>
    /\ user_solution = <<>>

\* One pass of lines 211-216 on every page record, image shape and detector
\* result.
V1Passed ==
    [i \in 1..Len(Coco.images) |->
        [shape \in Shapes1 |->
            [inf \in DetectorOutputs1 |-> v1_pass(Coco, Coco.images[i], shape, inf)]]]

\* Lines 208-209: the call and the initial assignments.
V1Begin ==
    /\ pc = "ready"
    /\ \E is \in BOOLEAN, ls \in BOOLEAN : img_save' = is /\ log_save' = ls
    /\ pc' = "loop"
    /\ idx' = 0
    /\ answer_bbox' = <<>> /\ a_label' = <<>>
    /\ UNCHANGED <<error, box1, box2, iou, images, exam_info, inference, anns,
                   q_a_box, predict, qa_list, qa_info, q_label, q_bbox, num,
                   user_solution>>

\* An exception leaves make_user_solution; inf is the detector's result of
\* the pass, when the detector was called.
V1Raised(inf, e) ==
    /\ pc' = "raised"
    /\ error' = e
    /\ inference' = inf
    /\ UNCHANGED <<idx, anns, predict, q_a_box, qa_info, answer_bbox, a_label>>

\* Lines 211-222 when nothing raised.  save_predict (img_save) draws on the
\* copy of the image; cv2.imwrite reports a failed write by its return
\* value, which is not read.
V1Recorded(inf, r) ==
    /\ pc' = "loop"
    /\ error' = error
    /\ inference' = inf
    /\ anns' = r.anns
    /\ predict' = r.predict
    /\ q_a_box' = r.q_a_box
    /\ qa_info' = r.qa_info
    /\ answer_bbox' = Update(answer_bbox, r.qa_info)
    /\ a_label' = IF log_save
                  THEN a_label \o SelectSeq(r.anns, LAMBDA ann : ann.category_id <= AnswerCategories)
                  ELSE a_label
    /\ idx' = idx + 1

V1Pass(inf, r) ==
    IF r.err # "none" THEN V1Raised(inf, r.err) ELSE V1Recorded(inf, r)

\* Lines 210-222: one pass of the loop over the images.  self.exam_info[idx]
\* raises IndexError past the last page record of the exam.
V1Page ==
    /\ pc = "loop"
    /\ idx < Len(images)
    /\ IF idx + 1 > Len(exam_info)
       THEN V1Raised(inference, "IndexError")
       ELSE \E inf \in DetectorOutputs1 :
               \E r \in {V1Passed[exam_info[idx + 1].id][images[idx + 1]][inf]} :
                   V1Pass(inf, r)
    /\ UNCHANGED <<box1, box2, iou, images, exam_info, img_save, log_save,
                   qa_list, q_label, q_bbox, num, user_solution>>

\* Lines 224-236: pd.DataFrame raises ValueError on columns of different
\* lengths; os.mkdir and to_csv raise OSError.
V1Logged(dir) ==
    IF Len(a_label) # Cardinality(DOMAIN answer_bbox) THEN "ValueError"
    ELSE IF dir = "unwritable" THEN "OSError"
    ELSE "none"

V1Return(e) ==
    IF e # "none"
    THEN pc' = "raised" /\ error' = e /\ user_solution' = user_solution
    ELSE pc' = "done" /\ error' = error /\ user_solution' = v1_solution(answer_bbox)

\* Lines 224-239: the prediction log, then the Solution.
V1Finish ==
    /\ pc = "loop"
    /\ idx = Len(images)
    /\ \E dir \in LogDirs : V1Return(IF log_save THEN V1Logged(dir) ELSE "none")
    /\ UNCHANGED <<box1, box2, iou, images, exam_info, img_save, log_save, idx,
                   inference, anns, q_a_box, predict, qa_list, qa_info,
                   answer_bbox, a_label, q_label, q_bbox, num>>

V1Next == V1Begin \/ V1Page \/ V1Finish

SpecV1 == V1Init /\ [][V1Next]_vars

(***************************************************************************)
(* Properties of Inference.                                                *)
(***************************************************************************)
\* The candidate c has IoU >= 0.3 with the region box; the IoU of two boxes
\* of zero union counts as 0.
Hit(c, box) ==
    /\ compute_iou(c, box).err = "none"
    /\ IouGe(compute_iou(c, box).val, 3, 10)

\* The last pass completed: anns, inference, predict, q_a_box and qa_info
\* are those of one page.
V1Passing == idx > 0 /\ pc \in {"loop", "done"}

\* The answer regions of the page whose pass raised in compute_iou.
V1FailedRegions ==
    resize_box(match_qa(load_anns(Coco, exam_info[idx + 1])).val,
               exam_info[idx + 1], images[idx + 1])

\* C1: a question whose answer region has no detected candidate with
\* IoU >= 0.3 makes the pass raise nothing, gets the sentinel from make_qa
\* and, the run ending with that page, the Solution entry -1.
C1_NoMatchIsSentinel ==
    /\ (pc = "raised" /\ error = "AssertionError") =>
            \A q \in DOMAIN V1FailedRegions :
                \E c \in Range(FlattenLabels(inference, 1)) : Hit(c, V1FailedRegions[q])
    /\ V1Passing =>
            \A q \in DOMAIN q_a_box :
                (\A c \in Range(FlattenLabels(inference, 1)) : ~Hit(c, q_a_box[q])) =>
                    /\ qa_info[q - AnswerCategories] = Unanswered
                    /\ pc = "done" => user_solution[q - AnswerCategories] = -1

\* C2: the Solution has an entry for every question region (category above
\* 6) of the reference annotations of the pages that were processed.
C2_EveryQuestionHasEntry ==
    (pc = "done" /\ exam_info # <<>>) =>
        \A i \in 1..idx :
            \A ann \in Range(load_anns(Coco, exam_info[i])) :
                ann.category_id > AnswerCategories =>
                    (ann.category_id - AnswerCategories) \in DOMAIN user_solution

\* C5: with an exam identifier that matches no stored page (exam_info is
\* empty) the call on a non-empty list of images ends without an exception
\* and with the empty Solution; runs that write the log are left out.
C5_UnknownExamIsEmpty ==
    (exam_info = <<>> /\ images # <<>> /\ ~log_save /\ pc \notin {"ready", "loop"}) =>
        pc = "done" /\ user_solution = <<>>

\* C6: a failure of the prediction log (or of the overlay) never keeps
\* make_user_solution from returning.
C6_SideEffectsNeverAbort ==
    pc = "raised" => error \notin {"ValueError", "OSError"}

V2MatchByWidthOf(page) == v2_match(v2_get_predict(inference), <<images[page]>>)

\* The pass of page idx + 1 raised in match.
V2MatchRaised == pc = "raised" /\ error # "OSError"

\* C11: on every page match puts a candidate in the left column exactly
\* when its left coordinate is below half the width of that page's own
\* image: what match returns (or that it raises) is what the split at the
\* page's own midline gives, also when the pages differ in width.
C11_ColumnByOwnWidth ==
    /\ V2Matching =>
            /\ V2MatchByWidthOf(idx).err = "none"
            /\ V2MatchByWidthOf(idx).val = qa_list
    /\ V2MatchRaised => V2MatchByWidthOf(idx + 1).err = error

\* The cluster c1 comes before c2 in the reading order of a page image of
\* the given width: left column first, then top to bottom.
ReadsBefore(c1, c2, width) ==
    \/ c1[1][1] < width /\ ~(c2[1][1] < width)
    \/ (c1[1][1] < width) = (c2[1][1] < width) /\ c1[1][2] < c2[1][2]

\* The clusters match returned for the last page, in the reading order of
\* that page; clusters at the same height of a column stay as match
\* returned them.
V2InReadingOrder == Sorted(qa_list, LAMBDA c1, c2 : ReadsBefore(c1, c2, images[idx][2]))

\* The label recorded for the cluster ps.
V2Answer(ps) == IF Len(ps) = 1 THEN -1 ELSE ps[2][6]

\* C12: the Solution lists the answers of the clusters in reading order:
\* the entries of a page follow those of the pages before it, and are the
\* answers of the page's clusters, paired or not, all clusters of the left
\* column of the page before those of its right column and within a column
\* by ascending top of the question marker.
C12_ReadingOrder ==
    V2Matching =>
        /\ Len(a_label) = num - 1
        /\ Len(qa_list) <= Len(a_label)
        /\ \A c \in 1..Len(qa_list) :
              a_label[Len(a_label) - Len(qa_list) + c][6] = V2Answer(V2InReadingOrder[c])
        /\ pc = "done" => \A k \in 1..Len(a_label) : user_solution[k] = a_label[k][6]

(***************************************************************************)
(* Further properties of Inference.                                        *)
(***************************************************************************)
\* C13: once a pass has put the Assignment of a question into answer_bbox,
\* no later step of the run changes or removes it, also when a later page
\* annotates the same question category.
C13_AssignmentsFrozen ==
    [][\A q \in DOMAIN answer_bbox :
           q \in DOMAIN answer_bbox' /\ answer_bbox'[q] = answer_bbox[q]]_vars

\* The question markers match puts in the left (or the right) column on the
\* candidates of the last pass.
V2ColumnMarkers(left) == v2_part(v2_get_predict(inference), images[1][2], left, TRUE)

\* C14: match returns for every candidate list, also when the left or the
\* right column of the page holds no question marker: a pass that raises in
\* match had a question marker in each column, and a page that went through
\* with a column without one has the clusters of the other column recorded.
C14_EmptyColumnReturns ==
    /\ V2MatchRaised => V2ColumnMarkers(TRUE) # <<>> /\ V2ColumnMarkers(FALSE) # <<>>
    /\ (V2Matching /\ V2ColumnMarkers(TRUE) = <<>> /\ V2ColumnMarkers(FALSE) # <<>>) =>
            /\ qa_list # <<>>
            /\ \A c \in 1..Len(qa_list) : qa_list[c][1] \in Range(V2ColumnMarkers(FALSE))

=============================================================================
